---- MODULE Spec2Model ----
(***************************************************************************)
(* Model of address-utils (src/src/main.rs): a pool of n_cores worker      *)
(* threads that brute-force a vanity address.  Every worker loops          *)
(*   load exit -> generate a candidate -> test it under the mask ->         *)
(*   on success println! the result lines -> store exit = true             *)
(* and main() joins the handles in spawn order.                            *)
(*                                                                         *)
(* `exit` is one AtomicBool; its loads and stores are single atomic steps  *)
(* on one coherent cell.  Each println! is one step (stdout is locked per  *)
(* call, not per result); stdout is kept as the lines of each worker plus  *)
(* a flag recording whether lines of two workers were ever interleaved.    *)
(***************************************************************************)
EXTENDS Naturals, Integers, Sequences, FiniteSets, TLC

\* ----------------------------------------------------------------- bounds
MaxCores == 2       \* largest n_cores explored
AddrBits == 2       \* width of Address (160 in the program)
NumKeys  == 2       \* private keys SigningKey::random may return: 1..NumKeys
NumSalts == 2       \* salts H256::random_using may return: 0..NumSalts-1
MaxIter  == 2       \* the iteration counter saturates here

Workers   == 1..MaxCores
AddrSpace == 2 ^ AddrBits
Addresses == 0..(AddrSpace - 1)
Keys      == 1..NumKeys
Salts     == 0..(NumSalts - 1)
AllOnes   == AddrSpace - 1

\* the command lines explored
Targets    == {0, AllOnes}
Masks      == Addresses
Nonces     == {0, 1}
Factories  == {1}
Codehashes == {0}

Commands ==
    {[tag |-> "Address"]}
    \cup {[tag |-> "ContractAddress", nonce |-> n] : n \in Nonces}
    \cup {[tag |-> "Create2Address", factory |-> f, codehash |-> h] :
              f \in Factories, h \in Codehashes}

VARIABLES
    command,    \* Cli.command
    target,     \* Cli.target
    mask,       \* Cli.mask
    n_cores,    \* Cli.n_cores
    exit,       \* the shared AtomicBool
    handles,    \* number of threads spawned so far (handles.len())
    joined,     \* number of handles joined so far
    main_pc,    \* "run" | "done" | "panicked"
    pc,         \* per worker: "idle" | "load" | "gen" | "print" | "store"
                \*             | "stopped" | "panicked"
    pending,    \* per worker: the lines its generate_* call still has to print
    printed,    \* per worker: the lines it has written to stdout, in order
    interleaved,\* some line was written between two lines of another worker
    late,       \* per worker: candidates generated while exit was already true
    winner,     \* worker whose store changed exit from false to true (0: none)
    cancelled,  \* an external party has set exit
    probe_address, probe_done, probe_result
                \* one application of test_address to a drawn address

vars == <<command, target, mask, n_cores, exit, handles, joined, main_pc,
          pc, pending, printed, interleaved, late, winner,
          cancelled,
          probe_address, probe_done, probe_result>>

cli == <<command, target, mask, n_cores, probe_address, probe_done,
         probe_result>>

out == <<printed, interleaved>>

\* ------------------------------------------------------- pure functions
Bump(n) == IF n < MaxIter THEN n + 1 ELSE n

Bit(a, i) == (a \div (2 ^ i)) % 2

RECURSIVE BitAnd(_, _)
BitAnd(a, b) ==
    IF a = 0 \/ b = 0 THEN 0
    ELSE (a % 2) * (b % 2) + 2 * BitAnd(a \div 2, b \div 2)

\* ethers_core primitives: deterministic functions into the address space
secret_key_to_address(k) == (3 * k + 1) % AddrSpace

get_contract_address(sender, nonce) == (5 * sender + nonce + 2) % AddrSpace

get_create2_address_from_hash(factory, salt, codehash) ==
    (factory + 3 * salt + codehash + 1) % AddrSpace

\* SigningKey::to_bytes: big-endian bytes of the scalar
to_bytes(k) == <<k \div 256, k % 256>>

from_bytes(b) == 256 * b[1] + b[2]

\* mutant: `a & m == t & m` read with the precedence of C, a & (m == t) & m
test_address_c_precedence(address, tgt, msk) ==
    BitAnd(BitAnd(address, IF msk = tgt THEN 1 ELSE 0), msk) # 0

\* mutant: the target is compared unmasked
test_address_unmasked_target(address, tgt, msk) == BitAnd(address, msk) = tgt

test_address(address, tgt, msk) == BitAnd(address, msk) = BitAnd(tgt, msk)

\* the println! calls of the three generate_* functions, in program order
address_lines(address, private_key) ==
    << [label |-> "address", value |-> address],
       [label |-> "privateKey", value |-> to_bytes(private_key)] >>

contract_lines(contract, address, private_key) ==
    << [label |-> "contract", value |-> contract],
       [label |-> "address", value |-> address],
       [label |-> "privateKey", value |-> to_bytes(private_key)] >>

create2_lines(contract, salt) ==
    << [label |-> "contract", value |-> contract],
       [label |-> "salt", value |-> salt] >>

\* #[clap(long, default_value_t = num_cpus::get() - 1)]
default_n_cores(num_cpus) == num_cpus - 1

\* ------------------------------------------------------------------ init
InitPool ==
    /\ exit = FALSE
    /\ handles = 0
    /\ joined = 0
    /\ main_pc = "run"
    /\ pc = [w \in Workers |-> "idle"]
    /\ pending = [w \in Workers |-> <<>>]
    /\ printed = [w \in Workers |-> <<>>]
    /\ interleaved = FALSE
    /\ late = [w \in Workers |-> 0]
    /\ winner = 0
    /\ cancelled = FALSE

Init ==
    /\ command \in Commands
    /\ target \in Targets
    /\ mask \in Masks
    /\ n_cores \in 0..MaxCores
    /\ InitPool
    /\ probe_address = 0
    /\ probe_done = FALSE
    /\ probe_result = FALSE

\* ------------------------------------------------------------ main thread
\* mutant: the range is 0..=n_cores
Spawn_inclusive ==
    /\ main_pc = "run"
    /\ handles <= n_cores
    /\ handles < MaxCores
    /\ handles' = handles + 1
    /\ pc' = [pc EXCEPT ![handles + 1] = "load"]
    /\ UNCHANGED <<cli, out, exit, joined, main_pc, pending, late, winner,
                   cancelled>>

\* one iteration of `for _ in 0..n_cores { handles.push(thread::spawn(..)) }`
Spawn ==
    /\ main_pc = "run"
    /\ handles < n_cores
    /\ handles' = handles + 1
    /\ pc' = [pc EXCEPT ![handles + 1] = "load"]
    /\ UNCHANGED <<cli, out, exit, joined, main_pc, pending, late, winner,
                   cancelled>>

\* mutant: the handle is dropped without waiting for the thread
Join_no_wait ==
    /\ main_pc = "run"
    /\ handles = n_cores
    /\ joined < handles
    /\ joined' = joined + 1
    /\ UNCHANGED <<cli, out, exit, handles, main_pc, pc, pending, late,
                   winner, cancelled>>

\* hdl.join().unwrap() on a thread that returned
Join ==
    /\ main_pc = "run"
    /\ handles = n_cores
    /\ joined < handles
    /\ pc[joined + 1] = "stopped"
    /\ joined' = joined + 1
    /\ UNCHANGED <<cli, out, exit, handles, main_pc, pc, pending, late,
                   winner, cancelled>>

\* mutant: the Err of join() is dropped instead of unwrapped
JoinErr_swallowed ==
    /\ main_pc = "run"
    /\ handles = n_cores
    /\ joined < handles
    /\ pc[joined + 1] = "panicked"
    /\ joined' = joined + 1
    /\ UNCHANGED <<cli, out, exit, handles, main_pc, pc, pending, late,
                   winner, cancelled>>

\* hdl.join().unwrap() on a thread that panicked: unwrap panics in main
JoinErr ==
    /\ main_pc = "run"
    /\ handles = n_cores
    /\ joined < handles
    /\ pc[joined + 1] = "panicked"
    /\ main_pc' = "panicked"
    /\ UNCHANGED <<cli, out, exit, handles, joined, pc, pending, late,
                   winner, cancelled>>

\* the join loop is exhausted and main returns
Return ==
    /\ main_pc = "run"
    /\ handles = n_cores
    /\ joined = handles
    /\ main_pc' = "done"
    /\ UNCHANGED <<cli, out, exit, handles, joined, pc, pending, late,
                   winner, cancelled>>

\* ---------------------------------------------------------------- workers
\* mutant: the loop never looks at the flag
Load_ignored(w) ==
    /\ pc[w] = "load"
    /\ pc' = [pc EXCEPT ![w] = "gen"]
    /\ UNCHANGED <<cli, out, exit, handles, joined, main_pc, pending, late,
                   winner, cancelled>>

\* mutant: the test of the flag is inverted
Load_inverted(w) ==
    /\ pc[w] = "load"
    /\ pc' = [pc EXCEPT ![w] = IF exit THEN "gen" ELSE "stopped"]
    /\ UNCHANGED <<cli, out, exit, handles, joined, main_pc, pending, late,
                   winner, cancelled>>

\* if exit.load(Relaxed) { return; }
Load(w) ==
    /\ pc[w] = "load"
    /\ pc' = [pc EXCEPT ![w] = IF exit THEN "stopped" ELSE "gen"]
    /\ UNCHANGED <<cli, out, exit, handles, joined, main_pc, pending, late,
                   winner, cancelled>>

\* mutant: the lines are printed whatever the test says
Candidate_prints_unconditionally(w, success, lines) ==
    /\ late' = [late EXCEPT ![w] = IF exit THEN Bump(@) ELSE @]
    /\ pc' = [pc EXCEPT ![w] = "print"]
    /\ pending' = [pending EXCEPT ![w] = lines]
    /\ UNCHANGED <<cli, out, exit, handles, joined, main_pc, winner,
                   cancelled>>

\* mutant: the flag is stored whether or not the candidate matched
Candidate_always_stores(w, success, lines) ==
    /\ late' = [late EXCEPT ![w] = IF exit THEN Bump(@) ELSE @]
    /\ IF success
         THEN /\ pc' = [pc EXCEPT ![w] = "print"]
              /\ pending' = [pending EXCEPT ![w] = lines]
         ELSE /\ pc' = [pc EXCEPT ![w] = "store"]
              /\ UNCHANGED pending
    /\ UNCHANGED <<cli, out, exit, handles, joined, main_pc, winner,
                   cancelled>>

\* the part common to the three generate_* functions: either start printing
\* `lines` (the test succeeded) or return false and go round the loop
Candidate(w, success, lines) ==
    /\ late' = [late EXCEPT ![w] = IF exit THEN Bump(@) ELSE @]
    /\ IF success
         THEN /\ pc' = [pc EXCEPT ![w] = "print"]
              /\ pending' = [pending EXCEPT ![w] = lines]
         ELSE /\ pc' = [pc EXCEPT ![w] = "load"]
              /\ UNCHANGED pending
    /\ UNCHANGED <<cli, out, exit, handles, joined, main_pc, winner,
                   cancelled>>

generate_address(w) ==
    /\ pc[w] = "gen"
    /\ command.tag = "Address"
    /\ \E private_key \in Keys :
         LET address == secret_key_to_address(private_key) IN
         Candidate(w, test_address(address, target, mask),
                   address_lines(address, private_key))

\* mutant: the deployer address is tested instead of the contract address
generate_contract_address_tests_deployer(w) ==
    /\ pc[w] = "gen"
    /\ command.tag = "ContractAddress"
    /\ \E private_key \in Keys :
         LET address  == secret_key_to_address(private_key)
             contract == get_contract_address(address, command.nonce) IN
         Candidate(w, test_address(address, target, mask),
                   contract_lines(contract, address, private_key))

generate_contract_address(w) ==
    /\ pc[w] = "gen"
    /\ command.tag = "ContractAddress"
    /\ \E private_key \in Keys :
         LET address  == secret_key_to_address(private_key)
             contract == get_contract_address(address, command.nonce) IN
         Candidate(w, test_address(contract, target, mask),
                   contract_lines(contract, address, private_key))

\* mutant: a signing key is drawn, used as the salt and printed
generate_create2_address_keyed(w) ==
    /\ pc[w] = "gen"
    /\ command.tag = "Create2Address"
    /\ \E private_key \in Keys :
         LET contract == get_create2_address_from_hash(
                             command.factory, private_key, command.codehash)
         IN Candidate(w, test_address(contract, target, mask),
                      << [label |-> "contract", value |-> contract],
                         [label |-> "privateKey",
                          value |-> to_bytes(private_key)] >>)

generate_create2_address(w) ==
    /\ pc[w] = "gen"
    /\ command.tag = "Create2Address"
    /\ \E salt \in Salts :
         LET contract == get_create2_address_from_hash(
                             command.factory, salt, command.codehash) IN
         Candidate(w, test_address(contract, target, mask),
                   create2_lines(contract, salt))

\* one println! of a successful generate_* call
Println(w) ==
    /\ pc[w] = "print"
    /\ printed' = [printed EXCEPT ![w] = Append(@, Head(pending[w]))]
    /\ interleaved' = (interleaved \/ \E v \in Workers \ {w} :
                                         pc[v] = "print" /\ printed[v] # <<>>)
    /\ pending' = [pending EXCEPT ![w] = Tail(@)]
    /\ pc' = [pc EXCEPT ![w] = IF Len(pending[w]) = 1 THEN "store" ELSE "print"]
    /\ UNCHANGED <<cli, exit, handles, joined, main_pc, late, winner,
                   cancelled>>

\* mutant: the store flips the flag
Store_toggles(w) ==
    /\ pc[w] = "store"
    /\ exit' = ~exit
    /\ winner' = IF exit THEN winner ELSE w
    /\ pc' = [pc EXCEPT ![w] = "load"]
    /\ UNCHANGED <<cli, out, handles, joined, main_pc, pending, late,
                   cancelled>>

\* if success { exit.store(true, Relaxed); }
Store(w) ==
    /\ pc[w] = "store"
    /\ exit' = TRUE
    /\ winner' = IF exit THEN winner ELSE w
    /\ pc' = [pc EXCEPT ![w] = "load"]
    /\ UNCHANGED <<cli, out, handles, joined, main_pc, pending, late,
                   cancelled>>

\* a worker thread panics: a primitive fails while it generates a candidate
Panic(w) ==
    /\ pc[w] = "gen"
    /\ pc' = [pc EXCEPT ![w] = "panicked"]
    /\ UNCHANGED <<cli, out, exit, handles, joined, main_pc, pending, late,
                   winner, cancelled>>

\* an external party sets the flag before anything was printed
Cancel ==
    /\ ~cancelled
    /\ \A w \in Workers : printed[w] = <<>>
    /\ exit' = TRUE
    /\ cancelled' = TRUE
    /\ UNCHANGED <<cli, out, handles, joined, main_pc, pc, pending, late,
                   winner>>

Worker(w) ==
    \/ Load(w)
    \/ generate_address(w)
    \/ generate_contract_address(w)
    \/ generate_create2_address(w)
    \/ Println(w)
    \/ Store(w)

Main == Spawn \/ Join \/ Return

Next == Main \/ \E w \in Workers : Worker(w)

NextPanic == Next \/ JoinErr \/ \E w \in Workers : Panic(w)

NextCancel == Next \/ Cancel

Fairness == WF_vars(Main) /\ \A w \in Workers : WF_vars(Worker(w))

\* infallible primitives, no cancellation
Spec == Init /\ [][Next]_vars

\* the same under fair scheduling of every thread
FairSpec == Spec /\ Fairness

\* worker threads may panic
SpecPanic == Init /\ [][NextPanic]_vars /\ Fairness /\ WF_vars(JoinErr)

\* an external party may set the flag
SpecCancel == Init /\ [][NextCancel]_vars

\* ------------------------------------------ test_address on drawn inputs
InitProbe ==
    /\ command = [tag |-> "Address"]
    /\ target \in Addresses
    /\ mask \in Addresses
    /\ n_cores = 0
    /\ InitPool
    /\ probe_address \in Addresses
    /\ probe_done = FALSE
    /\ probe_result = FALSE

Probe ==
    /\ ~probe_done
    /\ probe_done' = TRUE
    /\ probe_result' = test_address(probe_address, target, mask)
    /\ UNCHANGED <<command, target, mask, n_cores, probe_address, out, exit,
                   handles, joined, main_pc, pc, pending, late, winner,
                   cancelled>>

SpecProbe == InitProbe /\ [][Probe]_vars

\* ----------------------------------------------------- derived notions
\* the lines of a complete result of the running command
NLines == IF command.tag = "ContractAddress" THEN 3 ELSE 2

\* worker w has printed a complete Match
Emitted(w) == Len(printed[w]) = NLines

Matches == {w \in Workers : Emitted(w)}

\* the value printed by w under `label`
Field(w, label) ==
    LET i == CHOOSE j \in 1..Len(printed[w]) : printed[w][j].label = label
    IN printed[w][i].value

Stopped(w) == pc[w] = "stopped"

\* a worker whose thread has ended, normally or not
Ended(w) == pc[w] \in {"stopped", "panicked"}

\* worker w has printed a Match and has performed its store
Wrote(w) == Emitted(w) /\ pc[w] \in {"load", "stopped"}

\* ================================================================ claims

\* C1: at most one Match is ever emitted, under every interleaving of the
\* workers.
C1_AtMostOneMatch == Cardinality(Matches) <= 1

\* C2: after an external cancellation made while nothing had been emitted,
\* every worker generates at most one further candidate and no Match is
\* emitted.
C2_CancelEmitsNothing ==
    cancelled => \A w \in Workers : late[w] <= 1 /\ ~Emitted(w)

\* C3: once a worker has found a match and written the flag, every spawned
\* worker eventually stops and main returns from the join loop.
C3_Terminates ==
    (winner # 0) ~> (main_pc = "done" /\ \A w \in 1..n_cores : Stopped(w))

C3_Witness == winner # 0 /\ main_pc = "done" /\ n_cores = MaxCores

\* C4: exactly n_cores workers are spawned, and when main has returned from
\* the join loop every one of them is stopped.
C4_JoinAll ==
    /\ handles <= n_cores
    /\ \A w \in Workers : pc[w] # "idle" <=> w <= handles
    /\ main_pc = "done" =>
           /\ handles = n_cores
           /\ \A w \in 1..n_cores : Stopped(w)

C4_Witness ==
    main_pc = "done" /\ n_cores = MaxCores /\ \A w \in Workers : Stopped(w)

\* C5: test_address is true exactly when address and target agree on every
\* bit position whose mask bit is 1.
C5_TestAddress ==
    probe_done =>
        (probe_result <=>
            \A i \in 0..(AddrBits - 1) :
                Bit(mask, i) = 1 => Bit(probe_address, i) = Bit(target, i))

C5_Witness ==
    /\ probe_done
    /\ probe_result
    /\ probe_address # target
    /\ mask \notin {0, AllOnes}

\* C6: the flag starts false and never goes from true back to false.
C6_FlagMonotone == (exit = FALSE) /\ [][exit => exit']_vars

\* a worker has written the flag after another worker had already set it
C6_Witness == exit /\ \E w \in Workers : Wrote(w) /\ w # winner

\* C7 as claimed: whenever a worker has panicked, main eventually reports
\* it.
C7_PanicReported ==
    (\E w \in Workers : pc[w] = "panicked") ~> (main_pc = "panicked")

\* C7 amended: main never returns normally when a worker has panicked, and
\* it reports the panic once every worker spawned before the panicked one
\* has ended.
C7_PanicSurfaced ==
    /\ [](main_pc = "done" => \A w \in Workers : pc[w] # "panicked")
    /\ (\E w \in Workers :
            pc[w] = "panicked" /\ \A v \in 1..(w - 1) : Ended(v))
           ~> (main_pc = "panicked")

C7_Witness ==
    /\ main_pc = "panicked"
    /\ \E w \in Workers : pc[w] = "panicked" /\ w > 1

\* C8: a Match is emitted only by the worker whose store changed the flag
\* from false to true.
C8_OnlyWinnerEmits == \A w \in Workers : Wrote(w) => w = winner

ZeroMaskCase == command.tag = "Address" /\ mask = 0

\* C9: Address command, all-zero mask: every candidate a worker generates,
\* its first included, passes the test and is printed, and the printed
\* address is the address of the printed private key.
C9_ZeroMask ==
    /\ [][ZeroMaskCase => \A w \in Workers :
              (pc[w] = "gen" /\ pc'[w] # "gen") => pc'[w] = "print"]_vars
    /\ [](ZeroMaskCase => \A w \in Workers :
            /\ pc[w] = "store" => Emitted(w)
            /\ Emitted(w) =>
                 Field(w, "address") =
                     secret_key_to_address(from_bytes(Field(w, "privateKey"))))

C9_Witness ==
    /\ ZeroMaskCase
    /\ \E w \in Workers : Emitted(w) /\ Field(w, "address") # target

\* C10: ContractAddress command: every emitted Match reports
\* contract = get_contract_address(address, nonce) and
\* address = secret_key_to_address(privateKey), and the contract address
\* passes the test.
C10_ContractMatch ==
    command.tag = "ContractAddress" =>
        \A w \in Workers : Emitted(w) =>
            /\ Field(w, "contract") =
                   get_contract_address(Field(w, "address"), command.nonce)
            /\ Field(w, "address") =
                   secret_key_to_address(from_bytes(Field(w, "privateKey")))
            /\ test_address(Field(w, "contract"), target, mask)

C10_Witness ==
    /\ command.tag = "ContractAddress"
    /\ \E w \in Workers :
          /\ Emitted(w)
          /\ mask # 0
          /\ ~test_address(Field(w, "address"), target, mask)

\* the labels of the lines w has printed or is about to print
Labels(w) ==
    {printed[w][i].label : i \in 1..Len(printed[w])}
        \cup {pending[w][i].label : i \in 1..Len(pending[w])}

\* C11: Create2Address command: no line a worker prints or holds carries a
\* private key or a deployer address, an emitted Match is the contract line
\* followed by the salt line, and the contract is
\* get_create2_address_from_hash(factory, salt, codehash).
C11_Create2Match ==
    command.tag = "Create2Address" =>
        \A w \in Workers :
            /\ Labels(w) \subseteq {"contract", "salt"}
            /\ Emitted(w) =>
                 /\ printed[w][1].label = "contract"
                 /\ printed[w][2].label = "salt"
                 /\ Field(w, "contract") =
                        get_create2_address_from_hash(
                            command.factory, Field(w, "salt"),
                            command.codehash)

C11_Witness ==
    /\ command.tag = "Create2Address"
    /\ mask # 0
    /\ \E w \in Workers : Emitted(w)

\* C12: with an all-ones mask test_address(a, b, mask) is true exactly when
\* a = b.
C12_AllOnesMask ==
    (probe_done /\ mask = AllOnes) =>
        (probe_result <=> probe_address = target)

C12_Witness ==
    /\ probe_done
    /\ mask = AllOnes
    /\ probe_result
    /\ target \notin {0, AllOnes}

\* C13: a worker starts generating only from its load of the flag, and only
\* when that load returned false; so once the flag is true each worker
\* generates at most one further candidate.
C13_LoadBeforeGenerate ==
    /\ [][\A w \in Workers :
            (pc[w] # "gen" /\ pc'[w] = "gen") => (pc[w] = "load" /\ ~exit)]_vars
    /\ [](\A w \in Workers : late[w] <= 1 /\ (late[w] = 1 => pc[w] # "gen"))

\* a worker generated its one further candidate after the flag was set, and
\* has stopped
C13_Witness == \E w \in Workers : late[w] = 1 /\ Stopped(w)

\* C14: a worker whose candidate matched prints the whole Match, then
\* stores the flag, then stops without generating again; no worker prints
\* more than one Match.
C14_EmitStoreStop ==
    /\ [][\A w \in Workers :
            /\ pc[w] = "print" => pc'[w] \in {"print", "store"}
            /\ pc[w] = "store" =>
                 /\ Emitted(w)
                 /\ pc'[w] \in {"store", "load"}
                 /\ pc'[w] = "load" => exit'
            /\ Wrote(w) =>
                 /\ pc'[w] \in {pc[w], "stopped"}
                 /\ printed'[w] = printed[w]]_vars
    /\ [](\A w \in Workers : Len(printed[w]) <= NLines)

C14_Witness == \E w \in Workers : Wrote(w) /\ Stopped(w) /\ w = winner

\* address a agrees with the target on every bit the mask selects
Agrees(a) ==
    \A i \in 0..(AddrBits - 1) : Bit(mask, i) = 1 => Bit(a, i) = Bit(target, i)

\* the address w tested: the first line of what it prints
Tested(w) == (printed[w] \o pending[w])[1].value

C16_NoInterleaving == ~interleaved

\* C17: the flag is true only if a Match has been emitted, and the worker
\* whose store set it has emitted one.
C17_FlagImpliesMatch ==
    /\ exit => Matches # {}
    /\ exit <=> winner # 0
    /\ winner # 0 => Emitted(winner)

C17_Witness == exit /\ Cardinality(Matches) = 1 /\ \E w \in Workers : pc[w] = "gen"

\* the addresses the running command can test
Candidates ==
    CASE command.tag = "Address" ->
           {secret_key_to_address(k) : k \in Keys}
      [] command.tag = "ContractAddress" ->
           {get_contract_address(secret_key_to_address(k), command.nonce) :
                k \in Keys}
      [] command.tag = "Create2Address" ->
           {get_create2_address_from_hash(command.factory, s,
                                          command.codehash) : s \in Salts}

NoMatchPossible == \A a \in Candidates : ~Agrees(a)

\* C18: a worker stops only in a load of the flag that returns true; while
\* the flag is false no worker is stopped and, with n_cores >= 1, main has
\* not returned; when no candidate can match, the flag stays false.
C18_StopOnlyOnFlag ==
    /\ [][\A w \in Workers :
            (pc[w] # "stopped" /\ pc'[w] = "stopped") =>
                (pc[w] = "load" /\ exit)]_vars
    /\ [](~exit =>
            /\ \A w \in Workers : ~Stopped(w)
            /\ n_cores >= 1 => main_pc # "done")
    /\ [](NoMatchPossible => ~exit)

\* no candidate can match, and every worker is generating one
C18_Witness ==
    /\ NoMatchPossible
    /\ n_cores = MaxCores
    /\ handles = n_cores
    /\ \A w \in Workers : pc[w] = "gen"

\* C19: with n_cores = 0 (the default when num_cpus is 1) no worker is ever
\* spawned, the flag stays false, nothing is printed, and main returns.
C19_NoWorkers ==
    /\ default_n_cores(1) = 0
    /\ [](n_cores = 0 =>
            /\ handles = 0
            /\ joined = 0
            /\ \A w \in Workers : pc[w] = "idle" /\ printed[w] = <<>>
            /\ ~exit)
    /\ (n_cores = 0) ~> (main_pc = "done")

C19_Witness ==
    /\ n_cores = 0
    /\ main_pc = "done"
    /\ ~exit
    /\ mask = 0

====
